---------------------------- MODULE Spec2Model ----------------------------
(***************************************************************************)
(* LZNT1 codec (xangelix/lznt1): compress.rs and decompress.rs as state    *)
(* machines.  Bytes are integers 0..255, a Vec<u8> or slice is a sequence  *)
(* (the code's 0-based index i is the sequence index i + 1), u16 values    *)
(* are integers reduced modulo 2^16 where the code casts.                  *)
(***************************************************************************)
EXTENDS Integers, Sequences, FiniteSets, TLC

(***************************************************************************)
(* Program constants.                                                      *)
(***************************************************************************)
CHUNK_SIZE == 4096
MIN_MATCH == 3
MAX_MATCH == 4098
MAX_SEARCH_DEPTH == 16
HASH_MASK == 4095
EMPTY_ENTRY == 65535
HEADER_COMPRESSED == 45056
HEADER_RAW == 12288
HEADER_SIZE_MASK == 4095
HEADER_COMPRESSED_FLAG == 32768
TAG_GROUP_SIZE == 8
INITIAL_SPLIT == 12
INITIAL_THRESHOLD == 16

(***************************************************************************)
(* Bounds of the explored inputs.                                          *)
(***************************************************************************)
MaxLen == 6
MaxStreamLen == 5

\* the number of tokens pushed into a tag accumulator used on its own
MaxPushes == 9

(***************************************************************************)
(* Integer helpers: the bit operations of the code on naturals.            *)
(***************************************************************************)
Min(a, b) == IF a < b THEN a ELSE b

Pow2(n) == 2 ^ n

Shl(x, n) == x * Pow2(n)

Shr(x, n) == x \div Pow2(n)

RECURSIVE BitAnd(_, _)
BitAnd(a, b) ==
  IF a = 0 \/ b = 0 THEN 0
  ELSE 2 * BitAnd(a \div 2, b \div 2) + (IF a % 2 = 1 /\ b % 2 = 1 THEN 1 ELSE 0)

RECURSIVE BitOr(_, _)
BitOr(a, b) ==
  IF a = 0 THEN b
  ELSE IF b = 0 THEN a
  ELSE 2 * BitOr(a \div 2, b \div 2) + (IF a % 2 = 1 \/ b % 2 = 1 THEN 1 ELSE 0)

RECURSIVE BitXor(_, _)
BitXor(a, b) ==
  IF a = 0 THEN b
  ELSE IF b = 0 THEN a
  ELSE 2 * BitXor(a \div 2, b \div 2) + (IF a % 2 = b % 2 THEN 0 ELSE 1)

AsU16(x) == x % 65536

\* the two bytes of u16::to_le_bytes
ToLeBytes(v) == << v % 256, v \div 256 >>

\* u16::from_le_bytes
FromLeBytes(b0, b1) == b0 + 256 * b1

\* 0-based read of a sequence
At(s, i) == s[i + 1]

\* the slice s[from..to] (0-based, to exclusive)
Slice(s, from, to) == SubSeq(s, from + 1, to)

(***************************************************************************)
(* compress.rs: helpers                                                    *)
(***************************************************************************)
\* encode_header that stores size instead of size - 1
encode_header_NoMinusOne(flag, size) == BitOr(flag, BitAnd(AsU16(size), 4095))

encode_header(flag, size) == BitOr(flag, BitAnd(AsU16(size - 1), 4095))

hash_3_bytes(b0, b1, b2) ==
  BitAnd(BitXor(BitXor(Shl(b0, 6), Shl(b1, 3)), b2), HASH_MASK)

\* common_prefix_len over a[lo..lo+n) and b[lo..lo+n): the while loop stops
\* at the first mismatch; evaluated by halving so that long runs stay shallow.
RECURSIVE PrefixFrom(_, _, _, _, _)
PrefixFrom(s, a, b, lo, n) ==
  IF n = 0 THEN 0
  ELSE IF n = 1 THEN (IF At(s, a + lo) = At(s, b + lo) THEN 1 ELSE 0)
  ELSE LET h == n \div 2
           l == PrefixFrom(s, a, b, lo, h)
       IN  IF l < h THEN l ELSE h + PrefixFrom(s, a, b, lo + h, n - h)

\* common_prefix_len(&chunk[a..], &chunk[b..], max)
common_prefix_len(chunk, a, b, max) ==
  LET limit == Min(Min(Len(chunk) - a, Len(chunk) - b), max)
  IN  PrefixFrom(chunk, a, b, 0, limit)

(***************************************************************************)
(* compress.rs: Lznt1Context.  head and next are arrays of CHUNK_SIZE      *)
(* entries; an index outside the DOMAIN of the function holds the value    *)
(* the array was filled with, EMPTY_ENTRY.                                 *)
(***************************************************************************)
Entry(arr, i) == IF i \in DOMAIN arr THEN arr[i] ELSE EMPTY_ENTRY

Store(arr, i, v) == (i :> v) @@ arr

EmptyArr == [j \in {} |-> EMPTY_ENTRY]

\* epoch counts the compress_chunk calls that used the context and stamp[i]
\* is the epoch in which next[i] was last written: history, not read by the
\* program
Lznt1Context_new == [head |-> EmptyArr, next |-> EmptyArr, stamp |-> EmptyArr, epoch |-> 0]

\* a reset that leaves head[] as the previous chunk left it
reset_KeepHead(ctx) == [ctx EXCEPT !.epoch = ctx.epoch + 1]

reset(ctx) == [ctx EXCEPT !.head = EmptyArr, !.epoch = ctx.epoch + 1]

update(ctx, chunk, idx) ==
  IF idx + MIN_MATCH <= Len(chunk)
  THEN LET h == hash_3_bytes(At(chunk, idx), At(chunk, idx + 1), At(chunk, idx + 2))
       IN  [head |-> Store(ctx.head, h, AsU16(idx)),
            next |-> Store(ctx.next, idx, Entry(ctx.head, h)),
            stamp |-> Store(ctx.stamp, idx, ctx.epoch),
            epoch |-> ctx.epoch]
  ELSE ctx

\* for _ in 0..n { ctx.update(chunk, in_idx); in_idx += 1 }
RECURSIVE UpdateRange(_, _, _, _)
UpdateRange(ctx, chunk, idx, n) ==
  IF n = 0 THEN ctx
  ELSE IF n = 1 THEN update(ctx, chunk, idx)
  ELSE LET h == n \div 2
           first == UpdateRange(ctx, chunk, idx, h)
       IN  \* the test makes the first half complete before the second starts
           IF "head" \in DOMAIN first
           THEN UpdateRange(first, chunk, idx + h, n - h)
           ELSE first

(***************************************************************************)
(* compress.rs: TagAccumulator                                             *)
(***************************************************************************)
TagAccumulator_new ==
  [tag_byte |-> 0, item_count |-> 0, buffer |-> [j \in 0..15 |-> 0], buffer_len |-> 0]

\* flush returns the accumulator and the output after it
flush(acc, out) ==
  IF acc.item_count > 0
  THEN [acc |-> [acc EXCEPT !.tag_byte = 0, !.item_count = 0, !.buffer_len = 0],
        out |-> out \o << acc.tag_byte >>
                    \o [j \in 1..acc.buffer_len |-> acc.buffer[j - 1]]]
  ELSE [acc |-> acc, out |-> out]

\* commit_item that flushes at 7 items
commit_item_Seven(acc, out) ==
  LET a == [acc EXCEPT !.item_count = acc.item_count + 1]
  IN  IF a.item_count = 7 THEN flush(a, out) ELSE [acc |-> a, out |-> out]

commit_item(acc, out) ==
  LET a == [acc EXCEPT !.item_count = acc.item_count + 1]
  IN  IF a.item_count = 8 THEN flush(a, out) ELSE [acc |-> a, out |-> out]

push_literal(acc, byte, out) ==
  commit_item([acc EXCEPT !.buffer[acc.buffer_len] = byte,
                          !.buffer_len = acc.buffer_len + 1], out)

\* push_tuple that leaves the tag bit of the item clear
push_tuple_NoTagBit(acc, tuple, out) ==
  LET bytes == ToLeBytes(tuple)
  IN  commit_item([acc EXCEPT !.buffer[acc.buffer_len] = bytes[1],
                              !.buffer[acc.buffer_len + 1] = bytes[2],
                              !.buffer_len = acc.buffer_len + 2], out)

push_tuple(acc, tuple, out) ==
  LET bytes == ToLeBytes(tuple)
  IN  commit_item([acc EXCEPT !.tag_byte = BitOr(acc.tag_byte, Shl(1, acc.item_count)),
                              !.buffer[acc.buffer_len] = bytes[1],
                              !.buffer[acc.buffer_len + 1] = bytes[2],
                              !.buffer_len = acc.buffer_len + 2], out)

(***************************************************************************)
(* compress.rs: compress_chunk, the match search of one position           *)
(***************************************************************************)
\* seen lists the candidates the loop examined, in order, and stop tells how
\* the loop ended: "end" (EMPTY_ENTRY), "depth" (MAX_SEARCH_DEPTH), "ahead"
\* (line 203), "far" (line 208) or "max" (line 222)
RECURSIVE Walk(_, _, _, _, _, _, _, _, _)
Walk(chunk, ctx, in_idx, max_offset, candidate_idx, depth, best_len, best_off, seen) ==
  IF candidate_idx = EMPTY_ENTRY
  THEN [len |-> best_len, off |-> best_off, seen |-> seen, stop |-> "end"]
  ELSE IF ~(depth < MAX_SEARCH_DEPTH)
  THEN [len |-> best_len, off |-> best_off, seen |-> seen, stop |-> "depth"]
  ELSE
    LET candidate == candidate_idx
        dist == in_idx - candidate
        examined == Append(seen, candidate)
    IN
    IF candidate >= in_idx
    THEN [len |-> best_len, off |-> best_off, seen |-> examined, stop |-> "ahead"]
    ELSE IF dist >= max_offset
    THEN [len |-> best_len, off |-> best_off, seen |-> examined, stop |-> "far"]
    ELSE
      LET probe == in_idx + best_len < Len(chunk)
                   /\ At(chunk, candidate + best_len) = At(chunk, in_idx + best_len)
          match_len == common_prefix_len(chunk, in_idx, candidate, MAX_MATCH)
          better == probe /\ match_len >= MIN_MATCH /\ match_len > best_len
          nlen == IF better THEN match_len ELSE best_len
          noff == IF better THEN dist ELSE best_off
      IN  IF better /\ nlen >= MAX_MATCH
          THEN [len |-> MAX_MATCH, off |-> noff, seen |-> examined, stop |-> "max"]
          ELSE Walk(chunk, ctx, in_idx, max_offset,
                    Entry(ctx.next, candidate), depth + 1, nlen, noff, examined)

FindBestMatch(chunk, ctx, in_idx, max_offset) ==
  IF in_idx + MIN_MATCH <= Len(chunk)
  THEN LET hash == hash_3_bytes(At(chunk, in_idx), At(chunk, in_idx + 1),
                                At(chunk, in_idx + 2))
       IN  Walk(chunk, ctx, in_idx, max_offset, Entry(ctx.head, hash), 0, 0, 0, << >>)
  ELSE [len |-> 0, off |-> 0, seen |-> << >>, stop |-> "short"]

\* the update with >= for > in its loop test
RECURSIVE AdaptiveUpdate_Ge(_, _, _)
AdaptiveUpdate_Ge(n, sp, th) ==
  IF n >= th
  THEN AdaptiveUpdate_Ge(n, IF sp > 0 THEN sp - 1 ELSE sp, Shl(th, 1))
  ELSE [split |-> sp, threshold |-> th]

\* while blob_out_len > threshold { if split > 0 { split -= 1 } threshold <<= 1 }
RECURSIVE AdaptiveUpdate(_, _, _)
AdaptiveUpdate(n, sp, th) ==
  IF n > th
  THEN AdaptiveUpdate(n, IF sp > 0 THEN sp - 1 ELSE sp, Shl(th, 1))
  ELSE [split |-> sp, threshold |-> th]


(***************************************************************************)
(* compress.rs: the call frame of compress (with the locals of the         *)
(* compress_chunk call it is in).  old_output is the caller's buffer as it *)
(* was when compress was called.  emitted[k] lists the tokens pushed for   *)
(* chunk k so far, each with the in_idx and the split it was encoded       *)
(* under: history, not read by the program.                                *)
(***************************************************************************)
CompressCall(input, output) ==
  [pc |-> "loop", input |-> input, output |-> output, old_output |-> output,
   ctx |-> Lznt1Context_new, src_pos |-> 0,
   chunk_len |-> 0, chunk |-> << >>, start_out |-> 0, compressed_len |-> 0,
   accumulator |-> TagAccumulator_new,
   blob_out_len |-> 0, split |-> 12, threshold |-> 16, in_idx |-> 0,
   best_len |-> 0, best_off |-> 0, emitted |-> << >>]

CompressIdle == [CompressCall(<< >>, << >>) EXCEPT !.pc = "idle"]

\* the start of the chunk taken as if the buffer were empty at the call
chunk_start_out_Zero(output) == 0

\* line 148: let start_out = output.len()
chunk_start_out(output) == Len(output)

\* compress, lines 144-152: the loop test, the header placeholder and the
\* entry of compress_chunk (lines 176-184)
compress_loop(c) ==
  IF c.src_pos < Len(c.input)
  THEN LET chunk_len == Min(Len(c.input) - c.src_pos, CHUNK_SIZE)
       IN  [c EXCEPT !.pc = "chunk",
                     !.chunk_len = chunk_len,
                     !.chunk = Slice(c.input, c.src_pos, c.src_pos + chunk_len),
                     !.start_out = chunk_start_out(c.output),
                     !.output = c.output \o << 0, 0 >>,
                     !.ctx = reset(c.ctx),
                     !.accumulator = TagAccumulator_new,
                     !.blob_out_len = 0, !.split = 12, !.threshold = 16,
                     !.in_idx = 0, !.best_len = 0, !.best_off = 0,
                     !.emitted = Append(c.emitted, << >>)]
  ELSE [c EXCEPT !.pc = "done"]

\* the token that was pushed, as emitted records it
Token(c, is_tuple, value, length, offset) ==
  [in_idx |-> c.in_idx, split |-> c.split, is_tuple |-> is_tuple, value |-> value,
   length |-> length, offset |-> offset]

Emit(c, is_tuple, value, length, offset) ==
  [c.emitted EXCEPT ![Len(c.emitted)] = Append(@, Token(c, is_tuple, value, length, offset))]

\* a match length that is not cut down to what the length field can hold
clamp_len_None(best_len, split) == best_len

\* lines 238-241: clamp the length to fit in the current split bits
clamp_len(best_len, split) ==
  LET max_len_encodable == Shl(1, split) + 2
  IN  IF best_len > max_len_encodable THEN max_len_encodable ELSE best_len

\* compress_chunk, lines 186-271: one iteration of the token loop
compress_token(c) ==
  LET off_bits == 16 - c.split
      max_offset == Shl(1, off_bits)
      m == FindBestMatch(c.chunk, c.ctx, c.in_idx, max_offset)
  IN
  IF m.len >= MIN_MATCH
  THEN LET best_len == clamp_len(m.len, c.split)
           len_val == best_len - 3
           off_val == m.off - 1
           tuple == AsU16(BitOr(Shl(off_val, c.split), len_val))
           p == push_tuple(c.accumulator, tuple, c.output)
           a == AdaptiveUpdate(c.blob_out_len + best_len, c.split, c.threshold)
       IN  [c EXCEPT !.accumulator = p.acc, !.output = p.out,
                     !.ctx = UpdateRange(c.ctx, c.chunk, c.in_idx, best_len),
                     !.in_idx = c.in_idx + best_len,
                     !.blob_out_len = c.blob_out_len + best_len,
                     !.best_len = best_len, !.best_off = m.off,
                     !.split = a.split, !.threshold = a.threshold,
                     !.emitted = Emit(c, TRUE, tuple, best_len, m.off)]
  ELSE LET p == push_literal(c.accumulator, At(c.chunk, c.in_idx), c.output)
           a == AdaptiveUpdate(c.blob_out_len + 1, c.split, c.threshold)
       IN  [c EXCEPT !.accumulator = p.acc, !.output = p.out,
                     !.ctx = update(c.ctx, c.chunk, c.in_idx),
                     !.in_idx = c.in_idx + 1,
                     !.blob_out_len = c.blob_out_len + 1,
                     !.best_len = m.len, !.best_off = m.off,
                     !.split = a.split, !.threshold = a.threshold,
                     !.emitted = Emit(c, FALSE, At(c.chunk, c.in_idx), 1, 0)]

\* compress_chunk_end that keeps a body as long as the chunk (<= for <)
compress_chunk_end_Le(c) ==
  LET f == flush(c.accumulator, c.output)
      compressed_len == Len(f.out) - c.start_out - 2
  IN
  IF compressed_len <= Len(c.chunk)
  THEN LET h_bytes == ToLeBytes(encode_header(HEADER_COMPRESSED, compressed_len))
       IN  [c EXCEPT !.pc = "loop", !.accumulator = f.acc,
                     !.compressed_len = compressed_len,
                     !.output = [f.out EXCEPT ![c.start_out + 1] = h_bytes[1],
                                              ![c.start_out + 2] = h_bytes[2]],
                     !.src_pos = c.src_pos + c.chunk_len]
  ELSE [c EXCEPT !.pc = "loop", !.accumulator = f.acc,
                 !.compressed_len = compressed_len,
                 !.output = SubSeq(f.out, 1, c.start_out)
                              \o ToLeBytes(encode_header(HEADER_RAW, Len(c.chunk)))
                              \o c.chunk,
                 !.src_pos = c.src_pos + c.chunk_len]

\* compress_chunk line 274 (the final flush) and compress lines 154-170
compress_chunk_end(c) ==
  LET f == flush(c.accumulator, c.output)
      compressed_len == Len(f.out) - c.start_out - 2
  IN
  IF compressed_len < Len(c.chunk)
  THEN LET h_bytes == ToLeBytes(encode_header(HEADER_COMPRESSED, compressed_len))
       IN  [c EXCEPT !.pc = "loop", !.accumulator = f.acc,
                     !.compressed_len = compressed_len,
                     !.output = [f.out EXCEPT ![c.start_out + 1] = h_bytes[1],
                                              ![c.start_out + 2] = h_bytes[2]],
                     !.src_pos = c.src_pos + c.chunk_len]
  ELSE [c EXCEPT !.pc = "loop", !.accumulator = f.acc,
                 !.compressed_len = compressed_len,
                 !.output = SubSeq(f.out, 1, c.start_out)
                              \o ToLeBytes(encode_header(HEADER_RAW, Len(c.chunk)))
                              \o c.chunk,
                 !.src_pos = c.src_pos + c.chunk_len]

(***************************************************************************)
(* decompress.rs.  An indexing s[i] with i outside the slice, and a usize  *)
(* subtraction below zero, abort the call: result "Panic".                 *)
(***************************************************************************)
InBounds(s, i) == 0 <= i /\ i < Len(s)

\* update_adaptive_state with >= for > in its loop test
RECURSIVE update_adaptive_state_Ge(_, _, _, _)
update_adaptive_state_Ge(current_block_out_len, threshold, split, mask) ==
  IF current_block_out_len >= threshold
  THEN update_adaptive_state_Ge(current_block_out_len, Shl(threshold, 1),
                                IF split > 0 THEN split - 1 ELSE split,
                                IF split > 0 THEN Shl(1, split - 1) - 1 ELSE mask)
  ELSE [threshold |-> threshold, split |-> split, mask |-> mask]

\* update_adaptive_state
RECURSIVE update_adaptive_state(_, _, _, _)
update_adaptive_state(current_block_out_len, threshold, split, mask) ==
  IF current_block_out_len > threshold
  THEN update_adaptive_state(current_block_out_len, Shl(threshold, 1),
                             IF split > 0 THEN split - 1 ELSE split,
                             IF split > 0 THEN Shl(1, split - 1) - 1 ELSE mask)
  ELSE [threshold |-> threshold, split |-> split, mask |-> mask]

\* the copy loop that reads output[src_pos] in every iteration (k left out)
RECURSIVE CopyLoop_NoAdvance(_, _, _, _)
CopyLoop_NoAdvance(st, src_pos, k0, n) ==
  IF n = 0 THEN st
  ELSE IF n = 1
  THEN IF st.panic \/ ~InBounds(st.out, src_pos)
       THEN [st EXCEPT !.panic = TRUE]
       ELSE [st EXCEPT !.out = Append(st.out, At(st.out, src_pos))]
  ELSE LET h == n \div 2
           first == CopyLoop_NoAdvance(st, src_pos, k0, h)
       IN  IF first.panic \in BOOLEAN
           THEN CopyLoop_NoAdvance(first, src_pos, k0 + h, n - h)
           ELSE first

\* apply_match, lines 182-185: iterations k0 .. k0 + n - 1 of the copy loop
RECURSIVE CopyLoop(_, _, _, _)
CopyLoop(st, src_pos, k0, n) ==
  IF n = 0 THEN st
  ELSE IF n = 1
  THEN IF st.panic \/ ~InBounds(st.out, src_pos + k0)
       THEN [st EXCEPT !.panic = TRUE]
       ELSE [st EXCEPT !.out = Append(st.out, At(st.out, src_pos + k0))]
  ELSE LET h == n \div 2
           first == CopyLoop(st, src_pos, k0, h)
       IN  \* the test makes the first half complete before the second starts
           IF first.panic \in BOOLEAN
           THEN CopyLoop(first, src_pos, k0 + h, n - h)
           ELSE first

\* apply_match whose offset check admits one offset too many
apply_match_OffByOne(output, length, offset) ==
  IF offset > Len(output) + 1
  THEN [err |-> "InvalidOffset", out |-> output]
  ELSE IF offset = 1
  THEN IF ~InBounds(output, Len(output) - 1)
       THEN [err |-> "Panic", out |-> output]
       ELSE LET last_byte == At(output, Len(output) - 1)
            IN  [err |-> "", out |-> output \o [k \in 1..length |-> last_byte]]
  ELSE IF Len(output) - offset < 0
  THEN [err |-> "Panic", out |-> output]
  ELSE LET r == CopyLoop([out |-> output, panic |-> FALSE], Len(output) - offset, 0, length)
       IN  [err |-> IF r.panic THEN "Panic" ELSE "", out |-> r.out]

\* apply_match: the error kind ("" for Ok(())) and the output after it
apply_match(output, length, offset) ==
  IF offset > Len(output)
  THEN [err |-> "InvalidOffset", out |-> output]
  ELSE IF offset = 1
  THEN IF ~InBounds(output, Len(output) - 1)
       THEN [err |-> "Panic", out |-> output]
       ELSE LET last_byte == At(output, Len(output) - 1)
            IN  [err |-> "", out |-> output \o [k \in 1..length |-> last_byte]]
  ELSE IF Len(output) - offset < 0
  THEN [err |-> "Panic", out |-> output]
  ELSE LET r == CopyLoop([out |-> output, panic |-> FALSE], Len(output) - offset, 0, length)
       IN  [err |-> IF r.panic THEN "Panic" ELSE "", out |-> r.out]

\* the call frame of decompress (with the locals of the
\* decompress_compressed_block call it is in; block is its input slice).
\* old_output is the caller's buffer as it was when decompress was called.
DecompressCall(input, output) ==
  [pc |-> "loop", result |-> "", input |-> input, output |-> output,
   old_output |-> output, in_pos |-> 0, header |-> 0, size |-> 0,
   is_compressed |-> FALSE, block |-> << >>, in_idx |-> 0,
   split |-> INITIAL_SPLIT, mask |-> Shl(1, INITIAL_SPLIT) - 1,
   threshold |-> INITIAL_THRESHOLD, start_out_len |-> 0,
   tag_byte |-> 0, i |-> 0, is_link |-> FALSE, length |-> 0, offset |-> 0]

DecompressIdle == [DecompressCall(<< >>, << >>) EXCEPT !.pc = "idle"]

\* decompress returns r
Return(d, r) == [d EXCEPT !.pc = "done", !.result = r]

\* decompress_compressed_block returns Ok(()): decompress line 73 and back
\* to the loop test
BlockOk(d) == [d EXCEPT !.pc = "loop", !.in_pos = d.in_pos + d.size]

\* the trailing null test taken with two bytes left instead of one
trailing_null_TwoLeft(input, in_pos) == in_pos + 2 = Len(input) /\ At(input, in_pos) = 0

\* line 40: a single 0x00 byte at the end of the input
trailing_null(input, in_pos) == in_pos + 1 = Len(input) /\ At(input, in_pos) = 0

\* line 45: the two header bytes are not both there
header_missing(in_pos, end) == in_pos + 2 > end

\* the body size without the + 1: a size field of 0 gives an empty body
body_size_NoPlusOne(header) == BitAnd(header, HEADER_SIZE_MASK)

\* line 56
body_size(header) == BitAnd(header, HEADER_SIZE_MASK) + 1

\* the compressed test on the whole high nibble (0xB) instead of bit 15
is_compressed_chunk_Nibble(header) == header \div 4096 = 11

\* line 57
is_compressed_chunk(header) == BitAnd(header, HEADER_COMPRESSED_FLAG) # 0

\* the body test that admits a body one byte longer than the input
body_missing_OffByOne(in_pos, size, end) == in_pos + size > end + 1

\* line 60: the declared body does not fit in the input
body_missing(in_pos, size, end) == in_pos + size > end

\* the tuple test that asks for one byte only
tuple_missing_OneByte(in_idx, end) == in_idx + 1 > end

\* line 120: the two tuple bytes are not both there
tuple_missing(in_idx, end) == in_idx + 2 > end

\* decompress, lines 38-73: one iteration of the chunk loop up to the call
\* of decompress_compressed_block (lines 83-90), or through a raw chunk
decompress_loop(d) ==
  LET end == Len(d.input) IN
  IF ~(d.in_pos < end) THEN Return(d, "Ok")
  ELSE IF d.in_pos + 1 = end /\ ~InBounds(d.input, d.in_pos) THEN Return(d, "Panic")
  ELSE IF trailing_null(d.input, d.in_pos) THEN Return(d, "Ok")
  ELSE IF header_missing(d.in_pos, end) THEN Return(d, "UnexpectedEof")
  ELSE IF ~InBounds(d.input, d.in_pos) \/ ~InBounds(d.input, d.in_pos + 1)
  THEN Return(d, "Panic")
  ELSE
    LET header == FromLeBytes(At(d.input, d.in_pos), At(d.input, d.in_pos + 1))
        in_pos == d.in_pos + 2
        size == body_size(header)
        is_compressed == is_compressed_chunk(header)
        h == [d EXCEPT !.header = header, !.in_pos = in_pos]
    IN
    IF header = 0 THEN Return(h, "Ok")
    ELSE
      LET e == [h EXCEPT !.size = size, !.is_compressed = is_compressed] IN
      IF body_missing(in_pos, size, end) THEN Return(e, "InputTooShort")
      ELSE IF in_pos + size > Len(d.input) THEN Return(e, "Panic")
      ELSE
        LET block_slice == Slice(d.input, in_pos, in_pos + size) IN
        IF is_compressed
        THEN [e EXCEPT !.pc = "block", !.block = block_slice, !.in_idx = 0,
                       !.split = INITIAL_SPLIT, !.mask = Shl(1, INITIAL_SPLIT) - 1,
                       !.threshold = INITIAL_THRESHOLD,
                       !.start_out_len = Len(d.output)]
        ELSE [e EXCEPT !.block = block_slice,
                       !.output = d.output \o block_slice,
                       !.in_pos = in_pos + size]

\* the fast path taken for every 0x00 tag, without the test for 8 bytes
fast_path_NoBoundTest(tag_byte, in_idx, end) == tag_byte = 0

\* line 100: the condition of the all-literals fast path
fast_path(tag_byte, in_idx, end) == tag_byte = 0 /\ in_idx + TAG_GROUP_SIZE <= end

\* decompress_compressed_block, lines 92-112: the loop test, the tag byte
\* and the all-literals fast path
decompress_tag_group(d) ==
  LET end == Len(d.block) IN
  IF ~(d.in_idx < end) THEN BlockOk(d)
  ELSE IF ~InBounds(d.block, d.in_idx) THEN Return(d, "Panic")
  ELSE
    LET tag_byte == At(d.block, d.in_idx)
        in_idx == d.in_idx + 1
    IN
    IF fast_path(tag_byte, in_idx, end)
    THEN IF in_idx + TAG_GROUP_SIZE > Len(d.block)
         THEN Return(d, "Panic")
         ELSE LET out == d.output \o Slice(d.block, in_idx, in_idx + TAG_GROUP_SIZE)
              IN  IF Len(out) - d.start_out_len < 0
                  THEN Return(d, "Panic")
                  ELSE LET a == update_adaptive_state(Len(out) - d.start_out_len,
                                                      d.threshold, d.split, d.mask)
                       IN  [d EXCEPT !.tag_byte = tag_byte, !.output = out,
                                     !.in_idx = in_idx + TAG_GROUP_SIZE,
                                     !.threshold = a.threshold, !.split = a.split,
                                     !.mask = a.mask]
    ELSE [d EXCEPT !.pc = "token", !.tag_byte = tag_byte, !.in_idx = in_idx, !.i = 0]

\* the for loop without the end-of-body test of lines 152-154 after an item
AfterItem_NoEndTest(d) ==
  IF Len(d.output) - d.start_out_len < 0 THEN Return(d, "Panic")
  ELSE
    LET a == update_adaptive_state(Len(d.output) - d.start_out_len,
                                   d.threshold, d.split, d.mask)
        u == [d EXCEPT !.threshold = a.threshold, !.split = a.split, !.mask = a.mask]
    IN  IF u.i + 1 < TAG_GROUP_SIZE THEN [u EXCEPT !.i = u.i + 1]
        ELSE [u EXCEPT !.pc = "block"]

\* decompress_compressed_block, lines 143-155: the adaptive update and the
\* end-of-body test after an item, then the next i of the for loop
AfterItem(d) ==
  IF Len(d.output) - d.start_out_len < 0 THEN Return(d, "Panic")
  ELSE
    LET a == update_adaptive_state(Len(d.output) - d.start_out_len,
                                   d.threshold, d.split, d.mask)
        u == [d EXCEPT !.threshold = a.threshold, !.split = a.split, !.mask = a.mask]
    IN  IF u.in_idx >= Len(u.block) THEN BlockOk(u)
        ELSE IF u.i + 1 < TAG_GROUP_SIZE THEN [u EXCEPT !.i = u.i + 1]
        ELSE [u EXCEPT !.pc = "block"]

\* decompress_compressed_block, lines 115-155: iteration i of the for loop
decompress_token(d) ==
  LET end == Len(d.block)
      is_link == BitAnd(Shr(d.tag_byte, d.i), 1) # 0
      t == [d EXCEPT !.is_link = is_link]
  IN
  IF is_link
  THEN IF tuple_missing(d.in_idx, end) THEN Return(t, "UnexpectedEof")
       ELSE IF ~InBounds(d.block, d.in_idx) \/ ~InBounds(d.block, d.in_idx + 1)
       THEN Return(t, "Panic")
       ELSE
         LET tuple == FromLeBytes(At(d.block, d.in_idx), At(d.block, d.in_idx + 1))
             length == BitAnd(tuple, d.mask) + 3
             offset == Shr(tuple, d.split) + 1
             m == apply_match(d.output, length, offset)
             u == [t EXCEPT !.in_idx = d.in_idx + 2, !.length = length,
                            !.offset = offset, !.output = m.out]
         IN  IF m.err # "" THEN Return(u, m.err) ELSE AfterItem(u)
  ELSE IF d.in_idx >= end THEN BlockOk(t)
       ELSE IF ~InBounds(d.block, d.in_idx) THEN Return(t, "Panic")
       ELSE AfterItem([t EXCEPT !.output = Append(d.output, At(d.block, d.in_idx)),
                                !.in_idx = d.in_idx + 1])

(***************************************************************************)
(* Inputs of the explored calls.                                           *)
(***************************************************************************)
RECURSIVE SeqsUpTo(_, _)
SeqsUpTo(S, n) ==
  IF n = 0 THEN {<< >>}
  ELSE LET P == SeqsUpTo(S, n - 1)
       IN  P \cup {Append(s, b) : s \in {t \in P : Len(t) = n - 1}, b \in S}

\* 'A', 'B'
SourceBytes == {65, 66}

\* bytes (i mod p) for i in 0..n-1
Ramp(n, p) == [i \in 1..n |-> (i - 1) % p]

\* n bytes without repeats that the match search finds (from i^2 mod 65521)
Noise(n) == [i \in 1..n |-> (((i * i) % 65521) + ((i * i) % 65521) \div 256) % 256]

LongInputs ==
  { Ramp(CHUNK_SIZE + 1, 1), Ramp(CHUNK_SIZE + 1, 251), Ramp(2 * CHUNK_SIZE, 7),
    Ramp(CHUNK_SIZE + 40, 13), Ramp(CHUNK_SIZE + 40, 17), Noise(CHUNK_SIZE + 2) }

\* 17 distinct bytes and their repeat, found at distance 17 under split 11;
\* 16 distinct bytes and their repeat, at distance 16 = max_offset
ShortRamps == { Ramp(40, 17), Ramp(40, 16) }

Inputs == SeqsUpTo(SourceBytes, MaxLen) \cup ShortRamps \cup LongInputs

\* bytes of the explored streams: 0x00..0x03 (sizes, tag bytes, tuple and
\* header bytes), 0x10 (tuple with offset 2, raw header) and 0xB0
\* (compressed header)
StreamBytes == {0, 1, 2, 3, 16, 176}

\* further streams: the example of lib.rs ("Hello world"), a raw chunk
\* followed by a compressed chunk that starts with a back-reference, a
\* literal followed by a tuple of the largest length, a compressed chunk
\* with the header nibble 0xC, and a 0x00 tag followed by 7 bytes
SampleStreams ==
  { << 12, 176, 0, 72, 101, 108, 108, 111, 32, 119, 111, 0, 114, 108, 100 >>,
    << 0, 48, 65, 2, 176, 1, 0, 0 >>,
    << 3, 176, 2, 65, 255, 15 >>,
    << 1, 192, 0, 65 >>,
    << 7, 176, 0, 1, 2, 3, 4, 5, 6, 7 >> }

Streams == SeqsUpTo(StreamBytes, MaxStreamLen) \cup SampleStreams

\* what the caller's output buffer holds at the call
Buffers == {<< >>, << 85 >>}

VARIABLES comp, dec

vars == << comp, dec >>

CompressLoop ==
  /\ comp.pc = "loop"
  /\ comp' = compress_loop(comp)
  /\ UNCHANGED dec

CompressToken ==
  /\ comp.pc = "chunk"
  /\ comp.in_idx < Len(comp.chunk)
  /\ comp' = compress_token(comp)
  /\ UNCHANGED dec

CompressChunkEnd ==
  /\ comp.pc = "chunk"
  /\ ~(comp.in_idx < Len(comp.chunk))
  /\ comp' = compress_chunk_end(comp)
  /\ UNCHANGED dec

\* the caller of the round trip (fuzz.rs verify_round_trip, tests
\* assert_round_trip): what compress appended is the input of decompress
RoundTrip ==
  /\ comp.pc = "done"
  /\ dec.pc = "idle"
  /\ \E b \in Buffers :
       dec' = DecompressCall(SubSeq(comp.output, Len(comp.old_output) + 1,
                                    Len(comp.output)), b)
  /\ UNCHANGED comp

DecompressLoop ==
  /\ dec.pc = "loop"
  /\ dec' = decompress_loop(dec)
  /\ UNCHANGED comp

DecompressTagGroup ==
  /\ dec.pc = "block"
  /\ dec' = decompress_tag_group(dec)
  /\ UNCHANGED comp

DecompressToken ==
  /\ dec.pc = "token"
  /\ dec' = decompress_token(dec)
  /\ UNCHANGED comp

\* compress(x) and then decompress of what it appended
Init ==
  /\ \E x \in Inputs, b \in Buffers : comp = CompressCall(x, b)
  /\ dec = DecompressIdle

Next ==
  \/ CompressLoop
  \/ CompressToken
  \/ CompressChunkEnd
  \/ RoundTrip
  \/ DecompressLoop
  \/ DecompressTagGroup
  \/ DecompressToken

Spec == Init /\ [][Next]_vars

\* decompress of an arbitrary byte sequence
InitD ==
  /\ comp = CompressIdle
  /\ \E s \in Streams, b \in Buffers : dec = DecompressCall(s, b)

NextD ==
  \/ DecompressLoop
  \/ DecompressTagGroup
  \/ DecompressToken

SpecD == InitD /\ [][NextD]_vars

\* a TagAccumulator used on its own: push_literal, push_tuple and flush in
\* any order, on an output that starts empty.  The k-th token pushed is the
\* literal PushedByte(k) or the tuple PushedTuple(k).
PushedByte(k) == 64 + k

PushedTuple(k) == 256 * (16 + k) + 128 + k

TagCall == [CompressCall(<< >>, << >>) EXCEPT !.pc = "acc", !.emitted = << << >> >>]

TagPushLiteral ==
  /\ comp.pc = "acc"
  /\ Len(comp.emitted[1]) < MaxPushes
  /\ LET byte == PushedByte(Len(comp.emitted[1]) + 1)
         p == push_literal(comp.accumulator, byte, comp.output)
     IN  comp' = [comp EXCEPT !.accumulator = p.acc, !.output = p.out,
                              !.emitted = Emit(comp, FALSE, byte, 1, 0)]
  /\ UNCHANGED dec

TagPushTuple ==
  /\ comp.pc = "acc"
  /\ Len(comp.emitted[1]) < MaxPushes
  /\ LET tuple == PushedTuple(Len(comp.emitted[1]) + 1)
         p == push_tuple(comp.accumulator, tuple, comp.output)
     IN  comp' = [comp EXCEPT !.accumulator = p.acc, !.output = p.out,
                              !.emitted = Emit(comp, TRUE, tuple, 0, 0)]
  /\ UNCHANGED dec

TagFlush ==
  /\ comp.pc = "acc"
  /\ LET f == flush(comp.accumulator, comp.output)
     IN  comp' = [comp EXCEPT !.accumulator = f.acc, !.output = f.out]
  /\ UNCHANGED dec

InitT ==
  /\ comp = TagCall
  /\ dec = DecompressIdle

NextT ==
  \/ TagPushLiteral
  \/ TagPushTuple
  \/ TagFlush

SpecT == InitT /\ [][NextT]_vars

\* both: a compress call with its round trip, or a decompress call of an
\* arbitrary byte sequence
InitAll == Init \/ InitD

SpecAll == InitAll /\ [][Next]_vars

\* a call is under way or about to be made: the states in which Next has a
\* step to take
Running ==
  \/ comp.pc \in {"loop", "chunk"}
  \/ comp.pc = "done" /\ dec.pc = "idle"
  \/ dec.pc \in {"loop", "block", "token"}

\* the same calls, each running on: compress, its caller and decompress are
\* sequential code that takes its next step whenever it has one.  This is
\* WF_vars(Next) with ENABLED <<Next>>_vars written out as Running
SpecFair == InitAll /\ [][Next]_vars /\ ([]<>(~Running) \/ []<><<Next>>_vars)

(***************************************************************************)
(* Properties                                                              *)
(***************************************************************************)
\* what compress appended to the caller's buffer
Appended == SubSeq(comp.output, Len(comp.old_output) + 1, Len(comp.output))

\* what decompress appended to the caller's buffer
Decoded == SubSeq(dec.output, Len(dec.old_output) + 1, Len(dec.output))

\* the decompress call has returned
Returned == dec.pc = "done"

\* the header word at position pos of a stream
HeaderAt(stream, pos) == stream[pos + 1] + 256 * stream[pos + 2]

\* C1: round trip.  For every input x, compress(x) into an empty buffer
\* followed by decompress of the result into an empty buffer returns Ok and
\* yields exactly x.
C1_RoundTrip ==
  (Returned /\ comp.pc = "done" /\ comp.old_output = << >> /\ dec.old_output = << >>)
    => (dec.result = "Ok" /\ dec.output = comp.input)

\* a round trip of more than one chunk whose length is not a multiple of
\* CHUNK_SIZE, with a compressed chunk in it, has completed
C1_Witness ==
  /\ Returned /\ comp.pc = "done"
  /\ comp.old_output = << >> /\ dec.old_output = << >>
  /\ Len(comp.input) > CHUNK_SIZE /\ Len(comp.input) % CHUNK_SIZE # 0
  /\ dec.length >= MIN_MATCH
  /\ dec.output = comp.input

\* the item that decompress_token is about to decode is a back-reference
\* whose two tuple bytes are there
AtTuple ==
  /\ dec.pc = "token"
  /\ (dec.tag_byte \div (2 ^ dec.i)) % 2 = 1
  /\ dec.in_idx + 2 <= Len(dec.block)

\* the offset of that tuple under the current split
TupleOffset ==
  (dec.block[dec.in_idx + 1] + 256 * dec.block[dec.in_idx + 2]) \div (2 ^ dec.split) + 1

\* the number of bytes the current chunk has produced so far
ProducedInChunk == Len(dec.output) - dec.start_out_len

\* C2: decompress fails with InvalidOffset for every back-reference whose
\* offset exceeds the number of bytes produced so far within the current
\* chunk, also when the output buffer already holds earlier bytes.
C2_InvalidOffset ==
  [][(AtTuple /\ TupleOffset > ProducedInChunk) => dec'.result = "InvalidOffset"]_vars

\* C3: robustness.  For any input and any initial output buffer decompress
\* ends with Ok, UnexpectedEof, InputTooShort or InvalidOffset; no index is
\* out of bounds and no subtraction underflows (no "Panic"), and
\* InvalidHeader is never returned.
C3_Robust ==
  /\ dec.result \in {"", "Ok", "UnexpectedEof", "InputTooShort", "InvalidOffset"}
  /\ (Returned <=> dec.result # "")

\* a call on a non-empty buffer has read a tuple, copied its match and
\* returned Ok
C3_Witness ==
  /\ Returned
  /\ dec.result = "Ok"
  /\ dec.old_output # << >>
  /\ dec.is_link
  /\ dec.length >= MIN_MATCH
  /\ Len(dec.output) = Len(dec.old_output) + dec.length

\* the number of chunk headers in stream[pos..limit)
RECURSIVE HeadersRead(_, _, _)
HeadersRead(stream, pos, limit) ==
  IF pos + 2 > limit THEN 0
  ELSE 1 + HeadersRead(stream, pos + 2 + (HeaderAt(stream, pos) % 4096) + 1, limit)

\* C4: every chunk appends at most CHUNK_SIZE bytes, so a call has produced
\* at most CHUNK_SIZE times the number of chunk headers it read.
C4_ChunkBound ==
  Len(Decoded) <= CHUNK_SIZE * HeadersRead(dec.input, 0, dec.in_pos)

\* compress_chunk has encoded the whole chunk and returns
AtChunkEnd == comp.pc = "chunk" /\ ~(comp.in_idx < Len(comp.chunk))

\* the body compress_chunk has encoded for the chunk (after its final flush)
EncodedBody ==
  LET out == flush(comp.accumulator, comp.output).out
  IN  SubSeq(out, comp.start_out + 3, Len(out))

\* C5: raw fallback.  For a source chunk of length n (1 <= n <= 4096)
\* compress emits a compressed chunk, header 0xB000 | (body_len - 1), iff the
\* encoded body is strictly shorter than n; otherwise it emits n + 2 bytes,
\* the header 0x3000 | (n - 1) in little-endian and the n source bytes.  No
\* header is 0x0000 and no chunk takes more than n + 2 bytes.
C5_RawFallback ==
  [][AtChunkEnd =>
       LET n == Len(comp.chunk)
           emitted == SubSeq(comp'.output, comp.start_out + 1, Len(comp'.output))
           header == HeaderAt(emitted, 0)
           body == SubSeq(emitted, 3, Len(emitted))
       IN  /\ 1 <= n /\ n <= 4096
           /\ SubSeq(comp'.output, 1, comp.start_out) = SubSeq(comp.output, 1, comp.start_out)
           /\ header # 0
           /\ Len(emitted) <= n + 2
           /\ (header >= 32768) <=> (Len(EncodedBody) < n)
           /\ Len(EncodedBody) < n =>
                (header = 45056 + (Len(EncodedBody) - 1) /\ body = EncodedBody)
           /\ ~(Len(EncodedBody) < n) =>
                (/\ Len(emitted) = n + 2
                 /\ emitted[1] = (12288 + (n - 1)) % 256
                 /\ emitted[2] = (12288 + (n - 1)) \div 256
                 /\ body = comp.chunk)
  ]_vars

\* a chunk whose encoded body is exactly as long as the chunk was stored raw
C5_Witness ==
  /\ comp.pc = "loop"
  /\ comp.src_pos > 0
  /\ comp.compressed_len = Len(comp.chunk)
  /\ Len(comp.output) = comp.start_out + Len(comp.chunk) + 2
  /\ HeaderAt(comp.output, comp.start_out) = 12288 + Len(comp.chunk) - 1

\* stream[pos..] is a sequence of chunks, each a non-zero header followed by
\* exactly the body bytes the header declares, and ends with the last body
RECURSIVE WellChunked(_, _)
WellChunked(stream, pos) ==
  \/ pos = Len(stream)
  \/ /\ pos + 2 <= Len(stream)
     /\ HeaderAt(stream, pos) # 0
     /\ pos + 2 + (HeaderAt(stream, pos) % 4096) + 1 <= Len(stream)
     /\ WellChunked(stream, pos + 2 + (HeaderAt(stream, pos) % 4096) + 1)

CeilDiv(a, b) == (a + b - 1) \div b

\* C6: chunking.  For an input of length n what compress appends is exactly
\* ceil(n / 4096) consecutive chunks (none for n = 0); each header declares
\* the number of body bytes that follow, the chunks add up to the bytes
\* appended, and chunk k encodes the source bytes [4096k, min(4096(k+1), n)).
C6_Chunking ==
  /\ comp.pc \in {"loop", "done"} =>
       /\ WellChunked(Appended, 0)
       /\ HeadersRead(Appended, 0, Len(Appended)) = CeilDiv(comp.src_pos, CHUNK_SIZE)
       /\ comp.src_pos = Min(CHUNK_SIZE * CeilDiv(comp.src_pos, CHUNK_SIZE), Len(comp.input))
  /\ comp.pc = "done" => comp.src_pos = Len(comp.input)
  /\ (comp.pc = "done" /\ dec.pc = "loop") =>
       Decoded = SubSeq(comp.input, 1,
                        Min(CHUNK_SIZE * HeadersRead(dec.input, 0, dec.in_pos),
                            Len(comp.input)))

\* the decoder stands between the two chunks of a two-chunk stream
C6_Witness ==
  /\ comp.pc = "done"
  /\ HeadersRead(Appended, 0, Len(Appended)) = 2
  /\ dec.pc = "loop"
  /\ HeadersRead(dec.input, 0, dec.in_pos) = 1
  /\ Len(Decoded) = CHUNK_SIZE

\* the result of the decompress call that is in state d
RECURSIVE RunD(_)
RunD(d) ==
  IF d.pc = "loop" THEN RunD(decompress_loop(d))
  ELSE IF d.pc = "block" THEN RunD(decompress_tag_group(d))
  ELSE IF d.pc = "token" THEN RunD(decompress_token(d))
  ELSE d

\* stream with bits 14-12 of the header at pos set to f
WithFlags(stream, pos, f) ==
  [stream EXCEPT ![pos + 2] = 128 * (@ \div 128) + 16 * f + (@ % 16)]

\* C7: for a non-zero header the chunk is compressed iff bit 15 is set and
\* its body size is (header & 0x0FFF) + 1; bits 14-12 have no effect: a
\* stream that differs only in these bits of a header that stays non-zero
\* gives the same result and the same output.
C7_FlagsIgnored ==
  /\ dec.header # 0 =>
       /\ dec.is_compressed <=> (dec.header >= 32768)
       /\ dec.size = (dec.header % 4096) + 1
  /\ dec.pc \in {"block", "token"} => (dec.header >= 32768 /\ Len(dec.block) = dec.size)
  /\ (dec.pc = "loop" /\ dec.in_pos + 2 <= Len(dec.input)
        /\ HeaderAt(dec.input, dec.in_pos) # 0) =>
       \A f \in 0..7 :
         LET other == WithFlags(dec.input, dec.in_pos, f)
             r1 == RunD(dec)
             r2 == RunD([dec EXCEPT !.input = other])
         IN  HeaderAt(other, dec.in_pos) # 0 =>
               (r1.result = r2.result /\ r1.output = r2.output)

\* a chunk whose header has neither 0x3 nor 0xB in its high nibble was decoded
C7_Witness ==
  /\ Returned
  /\ dec.result = "Ok"
  /\ dec.header # 0
  /\ (dec.header \div 4096) % 8 # 3
  /\ dec.is_compressed
  /\ Len(Decoded) > 0

\* at a chunk boundary the next header is 0x0000
AtTerminator ==
  /\ dec.pc = "loop"
  /\ dec.in_pos + 2 <= Len(dec.input)
  /\ HeaderAt(dec.input, dec.in_pos) = 0

\* at a chunk boundary exactly one input byte remains
AtLastByte == dec.pc = "loop" /\ dec.in_pos + 1 = Len(dec.input)

\* C8: tolerant termination at a chunk boundary.  decompress returns Ok and
\* appends nothing further when the next header is 0x0000 (whatever follows)
\* or when exactly one input byte remains and it is 0x00.
C8_Terminator ==
  [][(AtTerminator \/ (AtLastByte /\ dec.input[dec.in_pos + 1] = 0)) =>
       (dec'.pc = "done" /\ dec'.result = "Ok" /\ dec'.output = dec.output)]_vars

\* a 0x0000 header ended the call with a non-zero byte left in the input
C8_Witness ==
  /\ Returned
  /\ dec.result = "Ok"
  /\ dec.header = 0
  /\ dec.in_pos < Len(dec.input)
  /\ dec.input[dec.in_pos + 1] # 0

\* inside a compressed body the tag bit of the next item marks a
\* back-reference and fewer than two body bytes remain
AtCutTuple ==
  /\ dec.pc = "token"
  /\ (dec.tag_byte \div (2 ^ dec.i)) % 2 = 1
  /\ Len(dec.block) - dec.in_idx < 2

\* C9: decompress fails with UnexpectedEof exactly in two cases: one input
\* byte that is not 0x00 remains at a chunk boundary, or a tag bit marks a
\* back-reference and fewer than two body bytes remain for its tuple.
C9_UnexpectedEof ==
  [][(dec.result = "" /\ dec'.result = "UnexpectedEof")
       <=> ((AtLastByte /\ dec.input[dec.in_pos + 1] # 0) \/ AtCutTuple)]_vars

\* a tuple cut short after a decoded item
C9_Witness ==
  /\ Returned
  /\ dec.result = "UnexpectedEof"
  /\ dec.is_link
  /\ dec.i > 0
  /\ Len(Decoded) > 0

\* at a chunk boundary a non-zero header declares more body bytes than remain
AtShortBody ==
  /\ dec.pc = "loop"
  /\ dec.in_pos + 2 <= Len(dec.input)
  /\ HeaderAt(dec.input, dec.in_pos) # 0
  /\ (HeaderAt(dec.input, dec.in_pos) % 4096) + 1 > Len(dec.input) - (dec.in_pos + 2)

\* C10: when a non-zero header (compressed or raw) declares a body larger
\* than the input that remains after it, decompress fails with InputTooShort
\* and appends no byte of that chunk; bytes of earlier chunks stay.
C10_InputTooShort ==
  [][AtShortBody =>
       (dec'.pc = "done" /\ dec'.result = "InputTooShort" /\ dec'.output = dec.output)]_vars

\* the body of the second chunk was missing; the first chunk's bytes are there
C10_Witness ==
  /\ Returned
  /\ dec.result = "InputTooShort"
  /\ dec.in_pos > 2
  /\ Len(Decoded) > 0

\* the tag bit of the item that decompress_token is about to decode
TagBit == (dec.tag_byte \div (2 ^ dec.i)) % 2

\* decompress_compressed_block has returned Ok(()) for the current chunk and
\* decompress is back at its loop test behind the body
ChunkComplete ==
  /\ dec'.pc = "loop"
  /\ dec'.result = ""
  /\ dec'.in_pos = dec.in_pos + dec.size

\* the bytes the current compressed chunk has produced
ChunkOutput == SubSeq(dec.output, dec.start_out_len + 1, Len(dec.output))

\* C11: tolerant end of body inside a tag group.  When the body ends at a
\* position whose tag bit marks a literal (also right after the tag byte), or
\* right after a decoded literal or back-reference, the chunk is complete:
\* every token decoded so far is kept and decompress goes on to the next
\* chunk without error.  A 0x00 tag followed by 1 to 7 bytes decodes those
\* bytes as literals.
C11_TolerantEnd ==
  [][/\ (dec.pc = "token" /\ TagBit = 0 /\ dec.in_idx >= Len(dec.block))
          => (ChunkComplete /\ dec'.output = dec.output)
     /\ (dec.pc = "token" /\ TagBit = 0 /\ dec.in_idx + 1 = Len(dec.block))
          => (ChunkComplete /\ dec'.output = Append(dec.output, dec.block[dec.in_idx + 1]))
     /\ (dec.pc = "token" /\ TagBit = 1 /\ dec.in_idx + 2 = Len(dec.block)
           /\ dec'.result # "InvalidOffset")
          => (/\ ChunkComplete
              /\ Len(dec'.output) = Len(dec.output) + dec'.length
              /\ SubSeq(dec'.output, 1, Len(dec.output)) = dec.output)
     /\ (dec'.pc = "loop" /\ dec'.is_compressed /\ Len(dec'.block) \in 2..TAG_GROUP_SIZE
           /\ dec'.block[1] = 0)
          => (dec'.result = "" /\ ChunkOutput' = Tail(dec'.block))]_vars

\* a chunk whose body is a 0x00 tag and 7 bytes was decoded as 7 literals
C11_Witness ==
  /\ dec.pc = "loop"
  /\ dec.is_compressed
  /\ Len(dec.block) = TAG_GROUP_SIZE
  /\ dec.block[1] = 0
  /\ ChunkOutput = Tail(dec.block)
  /\ dec.in_pos = 2 + dec.size

\* the first chunk of the input is compressed, its body is all there and
\* starts with a 0x00 tag followed by fewer than 8 body bytes
FirstGroupShort(stream) ==
  /\ Len(stream) >= 3
  /\ HeaderAt(stream, 0) >= HEADER_COMPRESSED_FLAG
  /\ (HeaderAt(stream, 0) % 4096) + 1 <= Len(stream) - 2
  /\ stream[3] = 0
  /\ HeaderAt(stream, 0) % 4096 < TAG_GROUP_SIZE

\* C12 as stated: decompress fails with InputTooShort when, inside a
\* compressed body, a tag byte 0x00 announces 8 literals and fewer than 8
\* body bytes remain after it.
C12_InputTooShort ==
  (Returned /\ FirstGroupShort(dec.input)) => dec.result = "InputTooShort"

\* decompress_compressed_block is about to read a 0x00 tag byte that fewer
\* than 8 body bytes follow
AtShortLiteralGroup ==
  /\ dec.pc = "block"
  /\ dec.in_idx < Len(dec.block)
  /\ dec.block[dec.in_idx + 1] = 0
  /\ Len(dec.block) - (dec.in_idx + 1) < TAG_GROUP_SIZE

\* C12 as amended: a tag byte 0x00 followed by fewer than 8 body bytes is not
\* an error.  The fast path is not taken, the bytes that remain are decoded
\* one by one as literals, and no step of that group fails; InputTooShort
\* comes only from a chunk header that declares more body bytes than remain.
C12_ShortGroupDecoded ==
  [][/\ AtShortLiteralGroup
          => (dec'.pc = "token" /\ dec'.result = "" /\ dec'.output = dec.output)
     /\ (dec.pc = "token" /\ dec.tag_byte = 0)
          => /\ dec'.result = ""
             /\ dec.in_idx < Len(dec.block)
                  => dec'.output = Append(dec.output, dec.block[dec.in_idx + 1])
     /\ (dec.result = "" /\ dec'.result = "InputTooShort") => AtShortBody]_vars

\* a call whose last chunk was a 0x00 tag and fewer than 8 literals returned Ok
C12_Witness ==
  /\ Returned
  /\ dec.result = "Ok"
  /\ dec.is_compressed
  /\ dec.tag_byte = 0
  /\ Len(dec.block) \in 2..TAG_GROUP_SIZE
  /\ dec.block[1] = 0
  /\ Decoded = Tail(dec.block)

\* s starts with the bytes of p
StartsWith(s, p) == Len(s) >= Len(p) /\ SubSeq(s, 1, Len(p)) = p

\* C13: append-only output.  In every state of a compress call and of a
\* decompress call (so also after Ok and after every error) the caller's
\* bytes are still the first bytes of the buffer; the chunk that compress
\* may truncate back to starts at or behind them; compress and decompress of
\* an empty input append nothing.
C13_AppendOnly ==
  /\ StartsWith(comp.output, comp.old_output)
  /\ StartsWith(dec.output, dec.old_output)
  /\ comp.pc = "chunk" => comp.start_out >= Len(comp.old_output)
  /\ (comp.pc = "done" /\ comp.input = << >>) => comp.output = comp.old_output
  /\ (Returned /\ dec.input = << >>) => dec.output = dec.old_output

\* compress fell back to a raw chunk on a buffer that held a byte of the
\* caller, and decompress has appended the decoded bytes to such a buffer
C13_Witness ==
  /\ comp.pc = "done"
  /\ comp.old_output # << >>
  /\ comp.input # << >>
  /\ comp.compressed_len >= Len(comp.chunk)
  /\ Returned
  /\ dec.old_output # << >>
  /\ Len(dec.output) > Len(dec.old_output)

\* compress run to its return
RECURSIVE RunC(_)
RunC(c) ==
  IF c.pc = "done" THEN c
  ELSE IF c.pc = "loop" THEN RunC(compress_loop(c))
  ELSE IF c.in_idx < Len(c.chunk) THEN RunC(compress_token(c))
  ELSE RunC(compress_chunk_end(c))

\* compress_chunk is about to search a match for position in_idx
AtToken == comp.pc = "chunk" /\ comp.in_idx < Len(comp.chunk)

\* the match search of that position
Search == FindBestMatch(comp.chunk, comp.ctx, comp.in_idx, Shl(1, 16 - comp.split))

\* C14: chunk independence of the compressor.  The bytes emitted for a chunk
\* that follows other chunks are the bytes compress emits for that chunk
\* alone, so compress(x ++ y) = compress(x) ++ compress(y) when len(x) is a
\* multiple of 4096.  Every candidate the chain walk examines is a position
\* below in_idx whose next[] entry was written during the current chunk, so
\* no entry left by an earlier chunk is followed, and every back-reference
\* emitted points inside the current chunk.
C14_ChunkIndependence ==
  [][/\ AtToken =>
          /\ \A k \in 1..Len(Search.seen) :
               /\ Search.seen[k] < comp.in_idx
               /\ Entry(comp.ctx.stamp, Search.seen[k]) = comp.ctx.epoch
          /\ comp'.best_len >= MIN_MATCH =>
               (1 <= comp'.best_off /\ comp'.best_off <= comp.in_idx)
     /\ (AtChunkEnd /\ comp.src_pos > 0) =>
          SubSeq(comp'.output, comp.start_out + 1, Len(comp'.output))
            = RunC(CompressCall(comp.chunk, << >>)).output]_vars

\* the second chunk of an input was emitted compressed, with a
\* back-reference, after a first chunk of 4096 bytes that left its entries
\* in next[]
C14_Witness ==
  /\ comp.pc = "done"
  /\ comp.src_pos > CHUNK_SIZE
  /\ comp.compressed_len < Len(comp.chunk)
  /\ comp.best_len >= MIN_MATCH
  /\ Entry(comp.ctx.stamp, CHUNK_SIZE - MIN_MATCH) = 1
  /\ dec.pc = "idle"

\* the counts at which split drops by one
SplitDrops == {17, 33, 65, 129, 257, 513, 1025, 2049}

\* the split after a count of n bytes produced in the chunk
SplitFor(n) == INITIAL_SPLIT - Cardinality({t \in SplitDrops : n >= t})

\* the smallest value 16 * 2^k that is >= n
ThresholdFor(n) ==
  LET T == {INITIAL_THRESHOLD * (2 ^ k) : k \in 0..8}
  IN  CHOOSE t \in T : t >= n /\ \A u \in T : u >= n => t <= u

\* C15: adaptive split table.  compress_chunk and decompress_compressed_block
\* start every chunk with (split, threshold) = (12, 16).  After the update
\* that follows a token (in the decoder also the 8 literals of the fast
\* path), with n <= 4096 bytes produced in the chunk, split is 12 for
\* n <= 16 and one less from each of n = 17, 33, 65, 129, 257, 513, 1025,
\* 2049 on, threshold is the smallest 16 * 2^k >= n, and split has not grown.
C15_SplitTable ==
  [][/\ (comp.pc = "loop" /\ comp'.pc = "chunk")
          => /\ comp'.split = 12 /\ comp'.threshold = 16
             /\ comp'.blob_out_len = 0
     /\ (dec.pc = "loop" /\ dec'.pc = "block")
          => /\ dec'.split = 12 /\ dec'.threshold = 16
             /\ dec'.start_out_len = Len(dec'.output)
     /\ (AtToken /\ comp'.blob_out_len <= CHUNK_SIZE)
          => /\ comp'.in_idx = comp'.blob_out_len
             /\ comp'.split = SplitFor(comp'.blob_out_len)
             /\ comp'.threshold = ThresholdFor(comp'.blob_out_len)
             /\ comp'.split <= comp.split
     /\ (dec.pc \in {"block", "token"}
           /\ Len(dec'.output) - dec.start_out_len <= CHUNK_SIZE)
          => /\ dec'.split = SplitFor(Len(dec'.output) - dec.start_out_len)
             /\ dec'.threshold = ThresholdFor(Len(dec'.output) - dec.start_out_len)
             /\ dec'.split <= dec.split]_vars

\* one back-reference took the count from at most 16 to more than 2048 and
\* split from 12 to 4, in the compressor and in the decoder
C15_Witness ==
  /\ Returned
  /\ comp.split = 4
  /\ comp.blob_out_len - comp.best_len <= INITIAL_THRESHOLD
  /\ dec.split = 4
  /\ dec.is_link
  /\ dec.length = comp.best_len
  /\ ProducedInChunk - dec.length <= INITIAL_THRESHOLD

\* v is a power of two
IsPow2(v) == \E k \in 0..16 : v = 2 ^ k

\* C16: in every state of compress and of decompress, for any input,
\* 4 <= split <= 12, threshold is a power of two >= 16 and the decoder's
\* mask is 2^split - 1.
C16_AdaptiveRange ==
  /\ comp.pc # "idle" =>
       /\ 4 <= comp.split /\ comp.split <= 12
       /\ IsPow2(comp.threshold) /\ comp.threshold >= 16
  /\ dec.pc # "idle" =>
       /\ 4 <= dec.split /\ dec.split <= 12
       /\ IsPow2(dec.threshold) /\ dec.threshold >= 16
       /\ dec.mask = (2 ^ dec.split) - 1

\* decompress is inside the compressed chunk number ChunkNo of a stream that
\* compress has emitted
InEmittedChunk == comp.pc = "done" /\ dec.pc \in {"block", "token"}

ChunkNo == HeadersRead(dec.input, 0, dec.in_pos)

\* the tokens compress pushed for that chunk
ChunkTokens == comp.emitted[ChunkNo]

\* the tuple word at the decoder's position in the body
TupleWord == dec.block[dec.in_idx + 1] + 256 * dec.block[dec.in_idx + 2]

\* C17: encoder/decoder agreement on the split.  Whenever decompress stands
\* before a token of a chunk that compress emitted as compressed, the bytes
\* it has produced in the chunk equal the in_idx at which compress pushed
\* that token and its split is the split the token was packed under; a
\* tuple unpacks to the offset and the length that compress chose.  At the
\* end of the body the decoder has produced all that the tokens cover.
C17_SplitAgreement ==
  InEmittedChunk =>
    /\ ChunkNo <= Len(comp.emitted)
    /\ dec.in_idx < Len(dec.block) =>
         \E j \in 1..Len(ChunkTokens) :
           LET t == ChunkTokens[j] IN
           /\ t.in_idx = ProducedInChunk
           /\ t.split = dec.split
           /\ \A h \in 1..(j - 1) : ChunkTokens[h].in_idx < ProducedInChunk
           /\ dec.pc = "token" =>
                /\ t.is_tuple <=> (TagBit = 1)
                /\ t.is_tuple =>
                     /\ dec.in_idx + 2 <= Len(dec.block)
                     /\ TupleWord = t.value
                     /\ (TupleWord \div (2 ^ dec.split)) + 1 = t.offset
                     /\ (TupleWord % (2 ^ dec.split)) + 3 = t.length
                     /\ dec.mask = (2 ^ dec.split) - 1
    /\ dec.in_idx >= Len(dec.block) =>
         LET t == ChunkTokens[Len(ChunkTokens)]
         IN  ProducedInChunk = t.in_idx + t.length

\* the decoder stands before a tuple that compress packed under split 11
C17_Witness ==
  /\ InEmittedChunk
  /\ dec.pc = "token"
  /\ TagBit = 1
  /\ dec.split = 11
  /\ \E j \in 1..Len(ChunkTokens) :
       /\ ChunkTokens[j].in_idx = ProducedInChunk
       /\ ChunkTokens[j].is_tuple
       /\ ChunkTokens[j].split = 11

\* the token that compress pushed last
LastToken ==
  LET log == comp.emitted[Len(comp.emitted)] IN log[Len(log)]

\* C18: every back-reference that compress_chunk emits at position i under
\* the split of that moment has 1 <= offset <= i, offset <= 2^(16 - split),
\* 3 <= length <= min(2^split + 2, chunk_len - i) and repeats the chunk's
\* bytes: chunk[i + k] = chunk[i + k - offset] for k < length.  The length
\* field (length - 3) fits in split bits and the packed word is below 2^16:
\* the tuple pushed is (offset - 1) * 2^split + (length - 3).
C18_BackReference ==
  [][(AtToken /\ comp'.best_len >= MIN_MATCH) =>
       LET i == comp.in_idx
           split == comp.split
           offset == comp'.best_off
           length == comp'.best_len
           chunk == comp.chunk
           packed == (offset - 1) * (2 ^ split) + (length - 3)
       IN  /\ 1 <= offset /\ offset <= i
           /\ offset <= 2 ^ (16 - split)
           /\ 3 <= length
           /\ length <= Min((2 ^ split) + 2, Len(chunk) - i)
           /\ \A k \in 0..(length - 1) : chunk[i + k + 1] = chunk[i + k - offset + 1]
           /\ length - 3 < 2 ^ split
           /\ packed < 65536
           /\ LastToken'.is_tuple /\ LastToken'.value = packed
           /\ comp'.in_idx = i + length]_vars

\* a back-reference of the largest length that split 11 can hold, cut from a
\* longer match
C18_Witness ==
  /\ comp.pc = "chunk"
  /\ comp.emitted[Len(comp.emitted)] # << >>
  /\ LastToken.is_tuple
  /\ LastToken.split = 11
  /\ LastToken.length = (2 ^ 11) + 2
  /\ comp.in_idx < Len(comp.chunk)
  /\ comp.chunk[comp.in_idx + 1] = comp.chunk[comp.in_idx + 1 - LastToken.offset]

\* max_offset under the compressor's current split
MaxOffset == 2 ^ (16 - comp.split)

\* the length that position in_idx and candidate c have in common
MatchAt(c) == common_prefix_len(comp.chunk, comp.in_idx, c, MAX_MATCH)

\* C19: match-finder window.  With max_offset = 2^(16 - split) the chain walk
\* examines at most 16 candidates per position, newest first; it stops early
\* only at a candidate whose distance is greater than max_offset; every
\* examined candidate at a distance d with 1 <= d <= max_offset is
\* considered, so the match chosen is at least as long as the match at any
\* such candidate, the candidate at distance exactly max_offset included.
C19_Window ==
  [][AtToken =>
       LET w == Search
           n == Len(w.seen)
       IN  /\ n <= MAX_SEARCH_DEPTH
           /\ \A k \in 1..(n - 1) : w.seen[k] > w.seen[k + 1]
           /\ w.stop \in {"ahead", "far", "max"} => comp.in_idx - w.seen[n] > MaxOffset
           /\ \A k \in 1..n :
                (/\ 1 <= comp.in_idx - w.seen[k]
                 /\ comp.in_idx - w.seen[k] <= MaxOffset
                 /\ MatchAt(w.seen[k]) >= MIN_MATCH)
                  => w.len >= MatchAt(w.seen[k])]_vars

\* the number of set bits of a byte
PopCount(b) == Cardinality({k \in 0..7 : (b \div (2 ^ k)) % 2 = 1})

\* the tokens pushed since the accumulator last wrote a group
Pending ==
  LET log == comp.emitted[Len(comp.emitted)]
  IN  SubSeq(log, Len(log) - comp.accumulator.item_count + 1, Len(log))

\* the flag byte of a group of tokens: bit i - 1 set iff token i is a tuple
FlagOf(tokens) ==
  LET Bit(i) == IF tokens[i].is_tuple THEN 2 ^ (i - 1) ELSE 0
      Sum[i \in 0..Len(tokens)] == IF i = 0 THEN 0 ELSE Sum[i - 1] + Bit(i)
  IN  Sum[Len(tokens)]

\* the bytes of a group's tokens in push order: a literal is one byte, a
\* tuple two bytes, low byte first
RECURSIVE BytesOf(_)
BytesOf(tokens) ==
  IF tokens = << >> THEN << >>
  ELSE LET t == Head(tokens)
       IN  (IF t.is_tuple THEN << t.value % 256, t.value \div 256 >> ELSE << t.value >>)
             \o BytesOf(Tail(tokens))

GroupOf(tokens) == << FlagOf(tokens) >> \o BytesOf(tokens)

\* the bytes buffer[0..buffer_len) of the accumulator
Buffered ==
  [j \in 1..comp.accumulator.buffer_len |-> comp.accumulator.buffer[j - 1]]

\* C20: tag-group accumulator.  Between calls item_count is in 0..7,
\* buffer_len = item_count + (set bits of tag_byte) <= 16, and tag_byte and
\* buffer hold the flag and the bytes of the pending tokens.  A push that
\* makes 8 pending tokens writes the group at once: the flag byte, bit i set
\* exactly for a tuple at place i, then the tokens in push order; any other
\* push writes nothing.  flush writes a pending group of 1 to 7 tokens the
\* same way and writes nothing when no token is pending.
C20_TagGroups ==
  [][LET acc == comp.accumulator
         pushed == Len(comp'.emitted[1]) = Len(comp.emitted[1]) + 1
         group == Pending \o << LastToken' >>
     IN  /\ acc'.item_count \in 0..7
         /\ acc'.buffer_len = acc'.item_count + PopCount(acc'.tag_byte)
         /\ acc'.buffer_len <= 16
         /\ acc'.tag_byte = FlagOf(Pending')
         /\ Buffered' = BytesOf(Pending')
         /\ (pushed /\ Len(group) = TAG_GROUP_SIZE)
              => (comp'.output = comp.output \o GroupOf(group) /\ acc'.item_count = 0)
         /\ (pushed /\ Len(group) < TAG_GROUP_SIZE)
              => (comp'.output = comp.output /\ Pending' = group)
         /\ (~pushed /\ acc.item_count > 0)
              => (comp'.output = comp.output \o GroupOf(Pending) /\ acc'.item_count = 0)
         /\ (~pushed /\ acc.item_count = 0) => comp' = comp]_vars

\* a full group of 8 tokens with literals and tuples, then a flushed group
\* of one token
C20_Witness ==
  /\ comp.pc = "acc"
  /\ Len(comp.emitted[1]) = 9
  /\ comp.accumulator.item_count = 0
  /\ comp.output = GroupOf(SubSeq(comp.emitted[1], 1, 8))
                     \o GroupOf(SubSeq(comp.emitted[1], 9, 9))
  /\ comp.output[1] \notin {0, 255}

\* the byte-by-byte forward copy of lines 180-185 applied to output
ForwardCopy(output, length, offset) ==
  CopyLoop([out |-> output, panic |-> FALSE], Len(output) - offset, 0, length).out

\* C21: match materialisation.  For a back-reference (offset, length) that
\* apply_match accepts on an output of length L, the step appends exactly
\* length bytes behind the unchanged L bytes, and out[L + k] =
\* out[L + k - offset] for every k < length (a match longer than its offset
\* repeats the last offset bytes).  With offset = 1 the output is the one the
\* byte-by-byte forward copy gives.
C21_Materialise ==
  [][(AtTuple /\ TupleOffset <= Len(dec.output)) =>
       LET L == Len(dec.output)
           offset == dec'.offset
           length == dec'.length
           out == dec'.output
       IN  /\ dec'.result = ""
           /\ offset = TupleOffset
           /\ length = (TupleWord % (2 ^ dec.split)) + 3
           /\ Len(out) = L + length
           /\ SubSeq(out, 1, L) = dec.output
           /\ \A k \in 0..(length - 1) : out[L + k + 1] = out[L + k - offset + 1]
           /\ offset = 1 => out = ForwardCopy(dec.output, length, 1)]_vars

\* a match of offset 2 and a greater length was copied: the last bytes
\* alternate between two different values
C21_Witness ==
  /\ dec.result \in {"", "Ok"}
  /\ dec.is_link
  /\ dec.offset = 2
  /\ dec.length > dec.offset
  /\ Len(dec.output) >= dec.length + 2
  /\ dec.output[Len(dec.output)] = dec.output[Len(dec.output) - 2]
  /\ dec.output[Len(dec.output)] # dec.output[Len(dec.output) - 1]

\* threshold b is threshold a after at most n doublings
Doubled(a, b, n) == \E k \in 0..n : b = a * (2 ^ k)

\* compress, if called, and decompress have returned
Finished == comp.pc \in {"idle", "done"} /\ dec.pc = "done"

\* C22: termination.  Every call of compress and of decompress returns.
\* decompress: an iteration of the chunk loop that goes on moves in_pos by
\* at least 3 (2 header bytes and a body of at least 1), every tag group
\* and every item moves in_idx forward, and i stays below 8.  compress_chunk:
\* every token moves in_idx by 1 (literal) or by the match length >= 3
\* (tuple) and never past the chunk, the chain walk examines at most 16
\* candidates, and the adaptive update doubles threshold a bounded number
\* of times.
C22_Termination ==
  /\ [][/\ (dec.pc = "loop" /\ dec'.pc = "loop") => dec'.in_pos >= dec.in_pos + 3
        /\ (dec.pc = "loop" /\ dec'.pc = "block")
             => (dec'.in_pos = dec.in_pos + 2 /\ dec'.size >= 1 /\ dec'.in_idx = 0
                 /\ Len(dec'.block) = dec'.size)
        /\ (dec.pc \in {"block", "token"} /\ dec'.pc = "loop")
             => (dec'.in_pos = dec.in_pos + dec.size /\ dec'.in_pos <= Len(dec.input))
        /\ (dec.pc = "block" /\ dec'.pc \in {"block", "token"})
             => (dec'.in_idx > dec.in_idx /\ dec'.in_idx <= Len(dec.block))
        /\ (dec.pc = "token" /\ dec'.pc \in {"block", "token"})
             => (/\ dec'.in_idx > dec.in_idx /\ dec'.in_idx < Len(dec.block)
                 /\ dec'.i < TAG_GROUP_SIZE)
        /\ (dec.pc \in {"block", "token"} /\ dec'.pc # "done")
             => Doubled(dec.threshold, dec'.threshold, 9)
        /\ AtToken
             => (/\ Len(Search.seen) <= MAX_SEARCH_DEPTH
                 /\ comp'.in_idx <= Len(comp.chunk)
                 /\ \/ ~LastToken'.is_tuple /\ comp'.in_idx = comp.in_idx + 1
                    \/ /\ LastToken'.is_tuple /\ comp'.best_len >= MIN_MATCH
                       /\ comp'.in_idx = comp.in_idx + comp'.best_len
                 /\ Doubled(comp.threshold, comp'.threshold, 8))
        /\ (comp.pc = "chunk" /\ comp'.pc = "loop")
             => (comp'.src_pos > comp.src_pos /\ comp'.src_pos <= Len(comp.input))]_vars
  /\ <>Finished

\* compress and decompress have both returned from a round trip of more
\* than one chunk with back-references
C22_Witness ==
  /\ comp.pc = "done"
  /\ dec.pc = "done"
  /\ Len(comp.input) > CHUNK_SIZE
  /\ dec.in_pos = Len(dec.input)
  /\ dec.is_link
  /\ LastToken.is_tuple
=============================================================================
